---- MODULE Spec2Model ----
\* A model of app.py: the threshold scorer score_metric, the data source
\* fetch_real_time_data, the rubric evaluator score_ai_company and the
\* GET /score_ai_company handler handle_score_request.
EXTENDS Integers, Naturals, Sequences, FiniteSets, TLC

\* ---------------------------------------------------------------------
\* Python numbers.  A weight, a running total or a normalized score is a
\* Python int or float; the floats are IEEE-754 binary64 values and every
\* float operation rounds to nearest, ties to even.  A number is the record
\*   [int |-> is it a Python int, s |-> sign (1 = negative),
\*    hi, lo |-> the 53-bit significand hi * 2^30 + lo, e |-> exponent]
\* standing for (-1)^s * (hi * 2^30 + lo) * 2^e, the significand in
\* [2^52, 2^53) unless the number is zero.  The ints the program meets are
\* small, so they are exactly representable and int arithmetic on them
\* coincides with the float arithmetic below.
\* ---------------------------------------------------------------------
\* LET v == e IN Then(v), with e evaluated exactly once, before Then: the
\* arithmetic is call by value, as in the program.
Bind(e, Then(_)) == CHOOSE r \in {Then(v) : v \in {e}} : TRUE

Limb == 1073741824

MantBits == 53

Mant(h, l) == [hi |-> h, lo |-> l]

MZero == Mant(0, 0)

MIsZero(a) == a.hi = 0 /\ a.lo = 0

MGe(a, b) == a.hi > b.hi \/ (a.hi = b.hi /\ a.lo >= b.lo)

MAdd(a, b) ==
    LET l == a.lo + b.lo
    IN  Mant(a.hi + b.hi + (l \div Limb), l % Limb)

MSub(a, b) ==
    IF a.lo >= b.lo THEN Mant(a.hi - b.hi, a.lo - b.lo)
    ELSE Mant(a.hi - b.hi - 1, (a.lo + Limb) - b.lo)

MShl1(a) ==
    LET l == 2 * a.lo
    IN  Mant(2 * a.hi + (l \div Limb), l % Limb)

\* a * 2^k for 0 <= k <= 30, the product below 2^60
MShlSmall(a, k) ==
    Mant(a.hi * (2 ^ k) + (a.lo \div (2 ^ (30 - k))),
         (a.lo % (2 ^ (30 - k))) * (2 ^ k))

\* a * 2^k for 0 <= k < 60, the product below 2^60
MShl(a, k) ==
    IF k <= 30 THEN MShlSmall(a, k)
    ELSE MShlSmall(Mant(a.lo, 0), k - 30)

\* floor(a / 2^k) for 0 <= k <= 30
MShrSmall(a, k) ==
    Mant(a.hi \div (2 ^ k),
         (a.hi % (2 ^ k)) * (2 ^ (30 - k)) + (a.lo \div (2 ^ k)))

\* floor(a / 2^k) for 0 <= k
MShr(a, k) ==
    IF k <= 30 THEN MShrSmall(a, k)
    ELSE IF k <= 60 THEN MShrSmall(Mant(0, a.hi), k - 30)
    ELSE MZero

\* a mod 2^k for 0 <= k <= 60
MLow(a, k) ==
    IF k <= 30 THEN Mant(0, a.lo % (2 ^ k))
    ELSE Mant(a.hi % (2 ^ (k - 30)), a.lo)

\* the number of bits of n, 0 <= n < 2^30
IntBitLen(n) ==
    CHOOSE k \in 0..30 : n < 2 ^ k /\ (k = 0 \/ n >= 2 ^ (k - 1))

MBitLen(a) == IF a.hi > 0 THEN 30 + IntBitLen(a.hi) ELSE IntBitLen(a.lo)

MIsOdd(a) == a.lo % 2 = 1

FZero == [int |-> FALSE, s |-> 0, hi |-> 0, lo |-> 0, e |-> 0]

IsZero(x) == x.hi = 0 /\ x.lo = 0

MantOf(x) == Mant(x.hi, x.lo)

\* The float nearest to (-1)^s * m * 2^e, ties to even; m < 2^60.
Round(s, m0, e) ==
    Bind(m0, LAMBDA m : Bind(MBitLen(m), LAMBDA n :
        IF n = 0 THEN FZero
        ELSE IF n <= MantBits
        THEN Bind(MShl(m, MantBits - n), LAMBDA r :
                 [int |-> FALSE, s |-> s, hi |-> r.hi, lo |-> r.lo,
                  e |-> e - (MantBits - n)])
        ELSE LET k    == n - MantBits
                 q    == MShr(m, k)
                 rem  == MLow(m, k)
                 half == MShl(Mant(0, 1), k - 1)
                 up   == IF rem = half THEN MIsOdd(q)
                         ELSE MGe(rem, half)
             IN  Bind(IF up THEN MAdd(q, Mant(0, 1)) ELSE q, LAMBDA r :
                     IF MBitLen(r) > MantBits
                     THEN Bind(MShr(r, 1), LAMBDA r2 :
                              [int |-> FALSE, s |-> s, hi |-> r2.hi,
                               lo |-> r2.lo, e |-> e + k + 1])
                     ELSE [int |-> FALSE, s |-> s, hi |-> r.hi, lo |-> r.lo,
                           e |-> e + k])))

\* A small Python int n >= 0 as a number.
FromInt(n) == [Round(0, Mant(0, n), 0) EXCEPT !.int = TRUE]

FNeg(x) == IF IsZero(x) THEN x ELSE [x EXCEPT !.s = 1 - x.s]

\* |x| >= |y|
AbsGe(x, y) ==
    IF IsZero(y) THEN TRUE
    ELSE IF IsZero(x) THEN FALSE
    ELSE x.e > y.e \/ (x.e = y.e /\ MGe(MantOf(x), MantOf(y)))

\* x + y for |x| >= |y|, both nonzero: three extra bits (guard, round,
\* sticky) keep the rounding exact.
AddOrdered(x, y) ==
    LET d  == x.e - y.e
        X  == MShl(MantOf(x), 3)
        Y0 == MShl(MantOf(y), 3)
    IN  IF d > MantBits + 2 THEN [x EXCEPT !.int = FALSE]
        ELSE Bind(MShr(Y0, d), LAMBDA Ys :
                 LET st == ~MIsZero(MLow(Y0, IF d > 60 THEN 60 ELSE d))
                     Y  == IF st /\ ~MIsOdd(Ys) THEN MAdd(Ys, Mant(0, 1))
                           ELSE Ys
                 IN  IF x.s = y.s THEN Round(x.s, MAdd(X, Y), x.e - 3)
                     ELSE Round(x.s, MSub(X, Y), x.e - 3))

\* Python's x + y
FAdd(x0, y0) ==
    Bind(x0, LAMBDA x : Bind(y0, LAMBDA y :
        [(IF IsZero(y) THEN x
          ELSE IF IsZero(x) THEN y
          ELSE IF AbsGe(x, y) THEN AddOrdered(x, y)
          ELSE AddOrdered(y, x)) EXCEPT !.int = x.int /\ y.int]))

\* Python's x - y
FSub(x, y0) == Bind(y0, LAMBDA y : FAdd(x, FNeg(y)))

RECURSIVE MTimes(_, _)
MTimes(a, k) ==
    IF k = 0 THEN MZero
    ELSE Bind(MTimes(a, k - 1), LAMBDA p : MAdd(a, p))

\* Python's k * x for a small int k >= 0 (a metric score)
FMulInt(k0, x0) ==
    Bind(k0, LAMBDA k : Bind(x0, LAMBDA x :
        [Round(x.s, MTimes(MantOf(x), k), x.e) EXCEPT !.int = x.int]))

\* <<floor(r * 2^n / d), (r * 2^n) mod d>> for r < d, n >= 1: the n
\* quotient bits of a long division, the upper half of them first.
RECURSIVE DivLoop(_, _, _)
DivLoop(r, d, n) ==
    IF MIsZero(r) THEN <<MZero, MZero>>
    ELSE IF n = 1
    THEN Bind(MShl1(r), LAMBDA r2 :
             IF MGe(r2, d) THEN <<Mant(0, 1), MSub(r2, d)>>
             ELSE <<MZero, r2>>)
    ELSE Bind(n \div 2, LAMBDA h : Bind(DivLoop(r, d, h), LAMBDA top :
             IF MIsZero(top[2]) THEN <<MShl(top[1], n - h), MZero>>
             ELSE Bind(DivLoop(top[2], d, n - h), LAMBDA low :
                      <<MAdd(MShl(top[1], n - h), low[1]), low[2]>>)))

\* Python's x / y for y # 0 (the caller raises ZeroDivisionError)
FDiv(x0, y0) ==
    Bind(x0, LAMBDA x : Bind(y0, LAMBDA y :
        IF IsZero(x) THEN FZero
        ELSE LET mx == MantOf(x)
                 my == MantOf(y)
                 b  == MGe(mx, my)
             IN  Bind(DivLoop(IF b THEN MSub(mx, my) ELSE mx, my,
                              MantBits + 2),
                      LAMBDA qr :
                 Bind(IF b THEN MAdd(MShl(Mant(0, 1), MantBits + 2), qr[1])
                      ELSE qr[1],
                      LAMBDA q :
                 Round(IF x.s = y.s THEN 0 ELSE 1,
                       IF MIsZero(qr[2]) THEN MShl1(q)
                       ELSE MAdd(MShl1(q), Mant(0, 1)),
                       (x.e - y.e) - (MantBits + 3))))))

FEq(x, y) ==
    \/ IsZero(x) /\ IsZero(y)
    \/ x.s = y.s /\ x.hi = y.hi /\ x.lo = y.lo /\ x.e = y.e

\* x <= y
FLe(x, y) ==
    IF x.s = 1 /\ ~IsZero(x)
    THEN IF y.s = 1 /\ ~IsZero(y) THEN AbsGe(x, y) ELSE TRUE
    ELSE IF y.s = 1 /\ ~IsZero(y) THEN FALSE
    ELSE AbsGe(y, x)


\* A decimal literal n/d of the source (0.0667 is Lit(667, 10000)): the
\* float nearest to the quotient, which is what Python's parser produces.
Lit(n, d) == FDiv(FromInt(n), FromInt(d))

\* ---------------------------------------------------------------------
\* Python's None, and the builtin sum.
\* ---------------------------------------------------------------------
None == [none |-> TRUE]

Value(v) == [none |-> FALSE, v |-> v]

\* left to right: ((0 + xs[1]) + xs[2]) + ..., the sum of CPython <= 3.11
RECURSIVE SumNaive(_, _)
SumNaive(xs, n) ==
    IF n = 0 THEN FromInt(0) ELSE FAdd(SumNaive(xs, n - 1), xs[n])

\* One item of the sum of CPython >= 3.12: ints are added exactly until the
\* first float; from then on a float item goes through Neumaier's
\* compensated step and an int item is added without compensation.
NeumaierStep(st0, x0) ==
    Bind(st0, LAMBDA st : Bind(x0, LAMBDA x :
        IF ~st.fl
        THEN [f |-> FAdd(st.f, x), c |-> FZero, fl |-> ~x.int]
        ELSE IF x.int THEN [st EXCEPT !.f = FAdd(st.f, x)]
        ELSE Bind(FAdd(st.f, x), LAMBDA t :
                 [f  |-> t,
                  c  |-> FAdd(st.c, IF AbsGe(st.f, x)
                                    THEN FAdd(FSub(st.f, t), x)
                                    ELSE FAdd(FSub(x, t), st.f)),
                  fl |-> TRUE])))

RECURSIVE SumNeumaierLoop(_, _)
SumNeumaierLoop(xs, n) ==
    IF n = 0 THEN [f |-> FromInt(0), c |-> FZero, fl |-> FALSE]
    ELSE NeumaierStep(SumNeumaierLoop(xs, n - 1), xs[n])

SumNeumaier(xs) ==
    Bind(SumNeumaierLoop(xs, Len(xs)), LAMBDA st :
        IF st.fl /\ ~IsZero(st.c) THEN FAdd(st.f, st.c) ELSE st.f)

\* The interpreters the program runs on differ in the builtin sum.
SumImpls == {"naive", "neumaier"}

\* sum(xs) of a sequence of numbers under the interpreter's implementation
sum(xs0, impl) ==
    Bind(xs0, LAMBDA xs :
        IF impl = "naive" THEN SumNaive(xs, Len(xs)) ELSE SumNeumaier(xs))

\* ---------------------------------------------------------------------
\* score_metric
\* ---------------------------------------------------------------------
\* thresholds[::-1] left out: the list as it was given
NotReversed(thresholds) == thresholds

\* thresholds[::-1]
Reversed(thresholds) ==
    [i \in 1..Len(thresholds) |-> thresholds[Len(thresholds) - i + 1]]

\* t[-k]
FromEnd(t, k) == t[Len(t) - k + 1]

\* the ladder with > in place of >=
score_metric_strict(data, thresholds, reverse) ==
    LET t == IF reverse THEN Reversed(thresholds) ELSE thresholds
    IN  IF data > FromEnd(t, 1) THEN 5
        ELSE IF data > FromEnd(t, 2) THEN 4
        ELSE IF data > FromEnd(t, 3) THEN 3
        ELSE IF data > FromEnd(t, 4) THEN 2
        ELSE 1

score_metric(data, thresholds, reverse) ==
    LET t == IF reverse THEN Reversed(thresholds) ELSE thresholds
    IN  IF data >= FromEnd(t, 1) THEN 5
        ELSE IF data >= FromEnd(t, 2) THEN 4
        ELSE IF data >= FromEnd(t, 3) THEN 3
        ELSE IF data >= FromEnd(t, 4) THEN 2
        ELSE 1

\* ---------------------------------------------------------------------
\* fetch_real_time_data
\* ---------------------------------------------------------------------
simulated_data ==
    "AI R&D Spending" :> 750000000 @@
    "Acquisitions of AI Companies" :> 3 @@
    "Dedicated AI Budgets" :> 500000000 @@
    "Number of AI Experts" :> 1500 @@
    "Hiring Trends" :> 50 @@
    "Academic Partnerships" :> 10 @@
    "AI Patents Filed" :> 250 @@
    "Research Publications" :> 100 @@
    "Open-Source Contributions" :> 50 @@
    "AI-Driven Products" :> 5 @@
    "Customer Use Cases" :> 20 @@
    "AI Research Partnerships" :> 10 @@
    "Industry Leadership Roles" :> 5 @@
    "Reputation in AI" :> 4 @@
    "Media Coverage" :> 4 @@
    "Stock Performance Tied to AI" :> 4 @@
    "AI Investment Narratives" :> 4

\* a data source that knows one company only
fetch_for_one_company(metric, company_symbol) ==
    IF metric \in DOMAIN simulated_data /\ company_symbol = "TSLA"
    THEN Value(simulated_data[metric])
    ELSE None

\* simulated_data.get(metric, None): the company symbol is not used
fetch_real_time_data(metric, company_symbol) ==
    IF metric \in DOMAIN simulated_data THEN Value(simulated_data[metric])
    ELSE None

\* ---------------------------------------------------------------------
\* score_ai_company
\* ---------------------------------------------------------------------
\* A rubric is the sequence, in dict order, of its categories; a category
\* is [category |-> name, metrics |-> the sequence of its
\* [metric |-> name, weight |-> number] items].
Item(m, w) == [metric |-> m, weight |-> w]

default_rubric ==
    << [category |-> "Financial Metrics",
        metrics  |-> << Item("AI R&D Spending", Lit(1, 10)),
                        Item("Acquisitions of AI Companies", Lit(1, 10)),
                        Item("Dedicated AI Budgets", Lit(1, 10)) >>],
       [category |-> "Workforce and Talent",
        metrics  |-> << Item("Number of AI Experts", Lit(667, 10000)),
                        Item("Hiring Trends", Lit(333, 10000)),
                        Item("Academic Partnerships", Lit(333, 10000)) >>],
       [category |-> "Intellectual Property and Research",
        metrics  |-> << Item("AI Patents Filed", Lit(667, 10000)),
                        Item("Research Publications", Lit(333, 10000)),
                        Item("Open-Source Contributions", Lit(333, 10000)) >>],
       [category |-> "Product and Service Offerings",
        metrics  |-> << Item("AI-Driven Products", Lit(75, 1000)),
                        Item("Customer Use Cases", Lit(75, 1000)) >>],
       [category |-> "Partnerships and Collaborations",
        metrics  |-> << Item("AI Research Partnerships", Lit(5, 100)),
                        Item("Industry Leadership Roles", Lit(5, 100)) >>],
       [category |-> "Market Perception",
        metrics  |-> << Item("Reputation in AI", Lit(25, 1000)),
                        Item("Media Coverage", Lit(25, 1000)) >>],
       [category |-> "Stock Market and Investor Sentiment",
        metrics  |-> << Item("Stock Performance Tied to AI", Lit(25, 1000)),
                        Item("AI Investment Narratives", Lit(25, 1000)) >>] >>

scoring_thresholds ==
    "AI R&D Spending" :> <<50000000, 100000000, 500000000, 1000000000>> @@
    "Acquisitions of AI Companies" :> <<1, 2, 5, 10>> @@
    "Dedicated AI Budgets" :>
        <<50000000, 100000000, 500000000, 1000000000>> @@
    "Number of AI Experts" :> <<100, 500, 1000, 2000>> @@
    "Hiring Trends" :> <<10, 20, 50, 100>> @@
    "Academic Partnerships" :> <<1, 5, 10, 20>> @@
    "AI Patents Filed" :> <<10, 50, 100, 500>> @@
    "Research Publications" :> <<5, 20, 50, 100>> @@
    "Open-Source Contributions" :> <<1, 10, 25, 50>> @@
    "AI-Driven Products" :> <<1, 3, 5, 10>> @@
    "Customer Use Cases" :> <<5, 10, 20, 50>> @@
    "AI Research Partnerships" :> <<1, 5, 10, 20>> @@
    "Industry Leadership Roles" :> <<1, 3, 5, 10>> @@
    "Reputation in AI" :> <<1, 2, 3, 5>> @@
    "Media Coverage" :> <<1, 2, 3, 5>> @@
    "Stock Performance Tied to AI" :> <<1, 2, 3, 5>> @@
    "AI Investment Narratives" :> <<1, 2, 3, 5>>

\* default_rubric if custom_weights is None else custom_weights
RubricIfNotNone(custom_weights) ==
    IF custom_weights.none THEN default_rubric ELSE custom_weights.dict

\* custom_weights or default_rubric: None and the empty dict are falsy
RubricOf(custom_weights) ==
    IF custom_weights.none \/ custom_weights.dict = <<>>
    THEN default_rubric
    ELSE custom_weights.dict

\* the inner loop with category_score += metric_score, the weight left out
RECURSIVE MetricLoopUnweighted(_, _, _)
MetricLoopUnweighted(metrics, n, company_symbol) ==
    IF n = 0 THEN [category_score |-> FromInt(0), scores |-> <<>>]
    ELSE Bind(MetricLoopUnweighted(metrics, n - 1, company_symbol), LAMBDA before :
        LET metric == metrics[n].metric
            weight == metrics[n].weight
            data   == fetch_real_time_data(metric, company_symbol)
        IN  IF ~data.none
            THEN Bind(score_metric(data.v, scoring_thresholds[metric], FALSE),
                      LAMBDA metric_score :
                     [category_score |->
                          FAdd(before.category_score,
                               FromInt(metric_score)),
                      scores |->
                          Append(before.scores,
                                 [metric |-> metric, score |-> metric_score])])
            ELSE before)

\* The inner loop over the first n items of one category: the running
\* category_score and the entries of scores[category].  Every metric
\* with data has a threshold list (the two tables have the same keys), so
\* scoring_thresholds[metric] is defined whenever it is read.
RECURSIVE MetricLoop(_, _, _)
MetricLoop(metrics, n, company_symbol) ==
    IF n = 0 THEN [category_score |-> FromInt(0), scores |-> <<>>]
    ELSE Bind(MetricLoop(metrics, n - 1, company_symbol), LAMBDA before :
        LET metric == metrics[n].metric
            weight == metrics[n].weight
            data   == fetch_real_time_data(metric, company_symbol)
        IN  IF ~data.none
            THEN Bind(score_metric(data.v, scoring_thresholds[metric], FALSE),
                      LAMBDA metric_score :
                     [category_score |->
                          FAdd(before.category_score,
                               FMulInt(metric_score, weight)),
                      scores |->
                          Append(before.scores,
                                 [metric |-> metric, score |-> metric_score])])
            ELSE before)

\* The outer loop over the first n categories: one [category,
\* category_score, scores] per category.
RECURSIVE CategoryLoop(_, _, _)
CategoryLoop(rubric, n, company_symbol) ==
    IF n = 0 THEN <<>>
    ELSE Bind(MetricLoop(rubric[n].metrics, Len(rubric[n].metrics),
                         company_symbol), LAMBDA r :
             Append(CategoryLoop(rubric, n - 1, company_symbol),
                    [category |-> rubric[n].category,
                     category_score |-> r.category_score,
                     scores |-> r.scores]))

\* the weights of the metrics that have data only
RECURSIVE AllWeightsWithData(_, _)
AllWeightsWithData(rubric, n) ==
    IF n = 0 THEN <<>>
    ELSE AllWeightsWithData(rubric, n - 1) \o
         [j \in 1..Len(SelectSeq(rubric[n].metrics,
                                 LAMBDA it : it.metric \in DOMAIN simulated_data))
            |-> SelectSeq(rubric[n].metrics,
                          LAMBDA it : it.metric \in DOMAIN simulated_data)[j].weight]

\* rubric[cat][metric] for cat in rubric for metric in rubric[cat]
RECURSIVE AllWeights(_, _)
AllWeights(rubric, n) ==
    IF n = 0 THEN <<>>
    ELSE AllWeights(rubric, n - 1) \o
         [j \in 1..Len(rubric[n].metrics) |-> rubric[n].metrics[j].weight]

\* {k: v / total_weight for k, v in category_scores.items()}, the first n
RECURSIVE NormalizeLoop(_, _, _)
NormalizeLoop(cats, n, total_weight) ==
    IF n = 0 THEN <<>>
    ELSE Append(NormalizeLoop(cats, n - 1, total_weight),
                [category |-> cats[n].category,
                 score |-> FDiv(cats[n].category_score, total_weight)])

\* normalized_scores.values()
RECURSIVE ValuesOf(_, _)
ValuesOf(normalized_scores, n) ==
    IF n = 0 THEN <<>>
    ELSE Append(ValuesOf(normalized_scores, n - 1), normalized_scores[n].score)

\* the dict scores, in the order of the categories
RECURSIVE ScoresOf(_, _)
ScoresOf(cats, n) ==
    IF n = 0 THEN <<>>
    ELSE Append(ScoresOf(cats, n - 1),
                [category |-> cats[n].category, scores |-> cats[n].scores])

Raise(exc, msg) ==
    [kind |-> "raise", exc |-> exc, msg |-> msg,
     category_scores |-> <<>>, overall_score |-> FZero, detailed_scores |-> <<>>]

Return(category_scores, overall_score, detailed_scores) ==
    [kind |-> "return", exc |-> "", msg |-> "",
     category_scores |-> category_scores, overall_score |-> overall_score,
     detailed_scores |-> detailed_scores]

\* score_ai_company with a guard that skips the division when the total
\* weight is zero and returns zero scores
score_ai_company_zero_guard(company_symbol, custom_weights, impl) ==
    Bind(RubricOf(custom_weights), LAMBDA rubric :
    Bind(CategoryLoop(rubric, Len(rubric), company_symbol), LAMBDA cats :
    Bind(sum(AllWeights(rubric, Len(rubric)), impl), LAMBDA total_weight :
    Bind(IF IsZero(total_weight)
         THEN [i \in 1..Len(cats) |->
                  [category |-> cats[i].category, score |-> FZero]]
         ELSE NormalizeLoop(cats, Len(cats), total_weight),
         LAMBDA normalized_scores :
        Return(normalized_scores,
               sum(ValuesOf(normalized_scores, Len(cats)), impl),
               ScoresOf(cats, Len(cats)))))))

\* The call score_ai_company(company_symbol, custom_weights): what it
\* returns ("Category Scores", "Overall Score", "Detailed Scores") or the
\* exception it raises.
score_ai_company(company_symbol, custom_weights, impl) ==
    Bind(RubricOf(custom_weights), LAMBDA rubric :
    Bind(CategoryLoop(rubric, Len(rubric), company_symbol), LAMBDA cats :
    Bind(sum(AllWeights(rubric, Len(rubric)), impl), LAMBDA total_weight :
        IF Len(cats) > 0 /\ IsZero(total_weight)
        THEN Raise("ZeroDivisionError",
                   IF total_weight.int /\ cats[1].category_score.int
                   THEN "division by zero"
                   ELSE "float division by zero")
        ELSE Bind(NormalizeLoop(cats, Len(cats), total_weight),
                  LAMBDA normalized_scores :
                 Return(normalized_scores,
                        sum(ValuesOf(normalized_scores, Len(cats)), impl),
                        ScoresOf(cats, Len(cats)))))))

\* ---------------------------------------------------------------------
\* handle_score_request
\* ---------------------------------------------------------------------
\* the handler answering with the module's example symbol
handle_score_request_example_symbol(ticker, impl) ==
    Bind(score_ai_company(ticker, None, impl), LAMBDA result :
        IF result.kind = "return"
        THEN [success |-> TRUE,
              ticker |-> "TSLA",
              category_scores |-> result.category_scores,
              overall_score |-> result.overall_score,
              detailed_scores |-> result.detailed_scores]
        ELSE [error |-> result.msg])

handle_score_request(ticker, impl) ==
    Bind(score_ai_company(ticker, None, impl), LAMBDA result :
        IF result.kind = "return"
        THEN [success |-> TRUE,
              ticker |-> ticker,
              category_scores |-> result.category_scores,
              overall_score |-> result.overall_score,
              detailed_scores |-> result.detailed_scores]
        ELSE [error |-> result.msg])

\* ---------------------------------------------------------------------
\* The inputs.
\* ---------------------------------------------------------------------
\* most metrics of a custom rubric, over all its categories
MaxMetrics == 2

\* most calls of score_ai_company one after the other
MaxCalls == 2

\* score_metric is tried on data in 0..MaxData and thresholds in
\* 0..MaxThreshold
MaxData == 5

MaxThreshold == 4

Tickers == {"TSLA", "NVDA"}

\* The metrics a custom rubric names, in the order its dicts list them:
\* two with the same data and the same thresholds, two with the same data
\* and different thresholds, one the data source does not know.
MetricUniverse ==
    << "Academic Partnerships", "AI Research Partnerships", "Hiring Trends",
       "Open-Source Contributions", "Unlisted Metric" >>

\* The weights of a custom rubric: 0, 1 and 0.025
Weights == {FromInt(0), FromInt(1), Lit(25, 1000)}

\* the categories of a custom rubric, in the order the dict lists them
CategoryNames == <<"c1", "c2">>

\* the members of a set S of integers in ascending order
Ascending(S) ==
    [i \in 1..Cardinality(S) |->
        CHOOSE x \in S : Cardinality({y \in S : y < x}) = i - 1]

\* the metric lists of exactly k items
MetricLists(k) ==
    UNION { { [i \in 1..k |-> Item(MetricUniverse[Ascending(S)[i]],
                                   w[Ascending(S)[i]])] : w \in [S -> Weights] }
            : S \in {T \in SUBSET (1..Len(MetricUniverse)) :
                        Cardinality(T) = k} }

\* the rubrics of exactly n categories and at most m metrics
RECURSIVE Rubrics(_, _)
Rubrics(n, m) ==
    IF n = 0 THEN {<<>>}
    ELSE UNION { { Append(r, [category |-> CategoryNames[n], metrics |-> ms])
                   : r \in Rubrics(n - 1, m - k), ms \in MetricLists(k) }
                 : k \in 0..m }

\* the values of the parameter custom_weights
CustomWeights ==
    {None} \cup
    { [none |-> FALSE, dict |-> r]
      : r \in UNION { Rubrics(n, MaxMetrics)
                      : n \in 0..Len(CategoryNames) } }

\* ---------------------------------------------------------------------
\* The state.
\* ---------------------------------------------------------------------
VARIABLES
    pc,              \* the function about to run, or "done"
    sum_impl,        \* the builtin sum of the interpreter
    company_symbol,  \* score_ai_company's arguments
    custom_weights,
    result,          \* what score_ai_company returned or raised
    prev,            \* the call before: its company symbol and result
    calls,           \* the calls of score_ai_company so far
    ticker,          \* handle_score_request's argument
    response,        \* the body handle_score_request answered
    data,            \* score_metric's arguments
    thresholds,
    reverse,
    ret              \* what score_metric returned

vars ==
    << pc, sum_impl, company_symbol, custom_weights, result, prev, calls,
       ticker, response, data, thresholds, reverse, ret >>

NoResult ==
    [kind |-> "none", exc |-> "", msg |-> "",
     category_scores |-> <<>>, overall_score |-> FZero, detailed_scores |-> <<>>]

NoCall == [symbol |-> "", result |-> NoResult]

NoResponse == [pending |-> TRUE]

\* A process that calls score_ai_company directly (as the module's example
\* usage does) or serves one GET /score_ai_company request.
Init ==
    /\ sum_impl \in SumImpls
    /\ pc \in {"score_ai_company", "handle_score_request"}
    /\ IF pc = "score_ai_company"
       THEN /\ company_symbol \in Tickers
            /\ custom_weights \in CustomWeights
            /\ ticker = ""
       ELSE /\ company_symbol = ""
            /\ custom_weights = None
            /\ ticker \in Tickers
    /\ result = NoResult
    /\ prev = NoCall
    /\ calls = 1
    /\ response = NoResponse
    /\ data = 0
    /\ thresholds = <<>>
    /\ reverse = FALSE
    /\ ret = 0

ScoreAiCompany ==
    /\ pc = "score_ai_company"
    /\ result' = score_ai_company(company_symbol, custom_weights, sum_impl)
    /\ pc' = "done"
    /\ UNCHANGED << sum_impl, company_symbol, custom_weights, prev, calls,
                    ticker, response, data, thresholds, reverse, ret >>

\* The default rubric is scored again, for any company.
CallAgain ==
    /\ pc = "done"
    /\ result.kind = "return"
    /\ custom_weights.none
    /\ calls < MaxCalls
    /\ \E symbol \in Tickers : company_symbol' = symbol
    /\ prev' = [symbol |-> company_symbol, result |-> result]
    /\ result' = NoResult
    /\ calls' = calls + 1
    /\ pc' = "score_ai_company"
    /\ UNCHANGED << sum_impl, custom_weights, ticker, response, data,
                    thresholds, reverse, ret >>

HandleScoreRequest ==
    /\ pc = "handle_score_request"
    /\ response' = handle_score_request(ticker, sum_impl)
    /\ pc' = "done"
    /\ UNCHANGED << sum_impl, company_symbol, custom_weights, result, prev,
                    calls, ticker, data, thresholds, reverse, ret >>

Next == ScoreAiCompany \/ CallAgain \/ HandleScoreRequest

Spec == Init /\ [][Next]_vars

\* score_metric alone, on every value and every 4-element threshold list
\* within the bounds.
InitMetric ==
    /\ pc = "score_metric"
    /\ data \in 0..MaxData
    /\ thresholds \in [1..4 -> 0..MaxThreshold]
    /\ reverse \in BOOLEAN
    /\ ret = 0
    /\ sum_impl = "naive"
    /\ company_symbol = ""
    /\ custom_weights = None
    /\ result = NoResult
    /\ prev = NoCall
    /\ calls = 0
    /\ ticker = ""
    /\ response = NoResponse

ScoreMetric ==
    /\ pc = "score_metric"
    /\ ret' = score_metric(data, thresholds, reverse)
    /\ pc' = "done"
    /\ UNCHANGED << sum_impl, company_symbol, custom_weights, result, prev,
                    calls, ticker, response, data, thresholds, reverse >>

NextMetric == ScoreMetric

SpecMetric == InitMetric /\ [][NextMetric]_vars

\* ---------------------------------------------------------------------
\* The properties of score_metric, under SpecMetric.
\* ---------------------------------------------------------------------
MetricScored == pc = "done" /\ DOMAIN thresholds = 1..4

IsAscending(t) == \A i \in 1..(Len(t) - 1) : t[i] <= t[i + 1]

\* C1: on an ascending 4-element threshold list, without reverse,
\* score_metric returns 1 plus the number of thresholds that are <= the
\* value, so a value equal to a threshold gets the higher score; with
\* [10, 20, 30, 40] the values 5, 10, 25, 35, 100 score 1, 2, 3, 4, 5.
C1_ScoreCountsThresholdsReached ==
    /\ (MetricScored /\ ~reverse /\ IsAscending(thresholds))
         => ret = 1 + Cardinality({i \in 1..4 : thresholds[i] <= data})
    /\ score_metric(5, <<10, 20, 30, 40>>, FALSE) = 1
    /\ score_metric(10, <<10, 20, 30, 40>>, FALSE) = 2
    /\ score_metric(25, <<10, 20, 30, 40>>, FALSE) = 3
    /\ score_metric(35, <<10, 20, 30, 40>>, FALSE) = 4
    /\ score_metric(100, <<10, 20, 30, 40>>, FALSE) = 5

\* A value that equals the second of four distinct ascending thresholds
\* has been scored 3.
C1_Witness ==
    /\ MetricScored /\ ~reverse
    /\ \A i \in 1..3 : thresholds[i] < thresholds[i + 1]
    /\ data = thresholds[2]
    /\ ret = 3

Called == pc = "done" /\ result.kind # "none"

Returned == Called /\ result.kind = "return"

\* the rubric the call evaluates
EvaluatedRubric == RubricOf(custom_weights)

CustomRubricGiven == ~custom_weights.none /\ custom_weights.dict # <<>>

HasData(metric) == ~fetch_real_time_data(metric, company_symbol).none

MetricsOf(cat) == [j \in 1..Len(cat.metrics) |-> cat.metrics[j].metric]

WeightsOf(cat) == [j \in 1..Len(cat.metrics) |-> cat.metrics[j].weight]

RECURSIVE Concat(_, _)
Concat(seqs, n) == IF n = 0 THEN <<>> ELSE Concat(seqs, n - 1) \o seqs[n]

\* every weight the rubric declares, in order
DeclaredWeights(rubric) ==
    Concat([i \in 1..Len(rubric) |-> WeightsOf(rubric[i])], Len(rubric))

\* totalWeight: the sum of the declared weights
DeclaredTotal(rubric) == sum(DeclaredWeights(rubric), sum_impl)

AllMetrics(rubric) ==
    Concat([i \in 1..Len(rubric) |-> MetricsOf(rubric[i])], Len(rubric))

AllHaveData(rubric) ==
    \A k \in 1..Len(AllMetrics(rubric)) : HasData(AllMetrics(rubric)[k])

SomeLacksData(rubric) ==
    \E k \in 1..Len(AllMetrics(rubric)) : ~HasData(AllMetrics(rubric)[k])

\* the score a metric with data gets
ScoreOf(metric) ==
    score_metric(fetch_real_time_data(metric, company_symbol).v,
                 scoring_thresholds[metric], FALSE)

\* the raw sum of the first n items of a category when a metric without
\* data is scored 0
RECURSIVE RawScoredAsZero(_, _)
RawScoredAsZero(cat, n) ==
    IF n = 0 THEN FromInt(0)
    ELSE FAdd(RawScoredAsZero(cat, n - 1),
              FMulInt(IF HasData(cat.metrics[n].metric)
                      THEN ScoreOf(cat.metrics[n].metric) ELSE 0,
                      cat.metrics[n].weight))

NormalizedScores == [i \in 1..Len(result.category_scores) |->
                        result.category_scores[i].score]

\* the result is the one obtained by scoring every absent metric as 0,
\* with every declared weight in the denominator, and no absent metric has
\* an entry in Detailed Scores
ResultSkipsAbsentMetrics(rubric) ==
    /\ result.kind = "return"
    /\ Len(result.category_scores) = Len(rubric)
    /\ Len(result.detailed_scores) = Len(rubric)
    /\ \A i \in 1..Len(rubric) :
          /\ [k \in 1..Len(result.detailed_scores[i].scores) |->
                 result.detailed_scores[i].scores[k].metric]
               = SelectSeq(MetricsOf(rubric[i]), HasData)
          /\ FEq(result.category_scores[i].score,
                 FDiv(RawScoredAsZero(rubric[i], Len(rubric[i].metrics)),
                      DeclaredTotal(rubric)))
    /\ FEq(result.overall_score,
           sum([i \in 1..Len(rubric) |->
                   FDiv(RawScoredAsZero(rubric[i], Len(rubric[i].metrics)),
                        DeclaredTotal(rubric))], sum_impl))

\* C3 as stated: whenever a rubric metric has no data, score_ai_company
\* still returns a result, without an entry for that metric and equal to
\* the result of scoring it as 0 with its weight in the denominator.
C3_AbsentMetricNeverFails ==
    (Called /\ SomeLacksData(EvaluatedRubric))
      => ResultSkipsAbsentMetrics(EvaluatedRubric)

\* C3 as amended: the same, for a rubric whose total declared weight is
\* not zero.
C3_AbsentMetricIsSkipped ==
    (Called /\ SomeLacksData(EvaluatedRubric)
            /\ ~IsZero(DeclaredTotal(EvaluatedRubric)))
      => ResultSkipsAbsentMetrics(EvaluatedRubric)

\* A category with a weighted metric that has data and a weighted metric
\* that has none has been scored.
C3_Witness ==
    /\ Returned
    /\ \E i \in 1..Len(EvaluatedRubric) :
          \E j, k \in 1..Len(EvaluatedRubric[i].metrics) :
             /\ HasData(EvaluatedRubric[i].metrics[j].metric)
             /\ ~HasData(EvaluatedRubric[i].metrics[k].metric)
             /\ ~IsZero(EvaluatedRubric[i].metrics[j].weight)
             /\ ~IsZero(EvaluatedRubric[i].metrics[k].weight)

AllWeightsZero(rubric) ==
    \A k \in 1..Len(DeclaredWeights(rubric)) :
        IsZero(DeclaredWeights(rubric)[k])

\* C4: a non-empty rubric whose weights are all 0 ends in an error
\* (Python's ZeroDivisionError); no result is returned, so no score that
\* is not a number is returned either.
C4_ZeroWeightRubricRaises ==
    (Called /\ CustomRubricGiven /\ AllWeightsZero(custom_weights.dict))
      => /\ result.kind = "raise"
         /\ result.exc = "ZeroDivisionError"
         /\ result.category_scores = <<>>

\* A rubric of two zero-weight metrics, one with data, has raised.
C4_Witness ==
    /\ Called /\ CustomRubricGiven /\ AllWeightsZero(custom_weights.dict)
    /\ Len(DeclaredWeights(custom_weights.dict)) = 2
    /\ ~AllHaveData(custom_weights.dict) /\ ~(\A k \in 1..2 :
            ~HasData(AllMetrics(custom_weights.dict)[k]))
    /\ result.kind = "raise"

EmptyRubricGiven == ~custom_weights.none /\ custom_weights.dict = <<>>

\* C5 as stated: the empty custom rubric has total weight 0 and ends in
\* the division-by-zero failure, without a score result.
C5_EmptyRubricRaises ==
    (Called /\ EmptyRubricGiven)
      => /\ result.kind = "raise"
         /\ result.exc = "ZeroDivisionError"

\* C5 as amended: the empty custom rubric is falsy, so the default rubric
\* is evaluated; its total weight is not 0 and the call returns the
\* default rubric's result.
C5_EmptyRubricFallsBackToDefault ==
    (Called /\ EmptyRubricGiven)
      => /\ result.kind = "return"
         /\ ~IsZero(DeclaredTotal(default_rubric))
         /\ [i \in 1..Len(result.category_scores) |->
                result.category_scores[i].category]
              = [i \in 1..Len(default_rubric) |-> default_rubric[i].category]
         /\ result = score_ai_company(company_symbol, None, sum_impl)

\* The call with the empty rubric has returned the seven category scores.
C5_Witness ==
    /\ Returned /\ EmptyRubricGiven
    /\ Len(result.category_scores) = 7

\* C6: when every metric has data, the weights are not negative and the
\* total weight is positive, the Overall Score, the sum of the normalized
\* Category Scores, lies between 1 and 5.
C6_OverallScoreInRange ==
    (Returned /\ AllHaveData(EvaluatedRubric)
              /\ ~IsZero(DeclaredTotal(EvaluatedRubric)))
      => /\ FEq(result.overall_score, sum(NormalizedScores, sum_impl))
         /\ FLe(FromInt(1), result.overall_score)
         /\ FLe(result.overall_score, FromInt(5))

\* C7: the normalized Category Scores of a result sum to 1.
C7_CategoryScoresSumToOne ==
    Returned => FEq(sum(NormalizedScores, sum_impl), FromInt(1))

\* every metric of the rubric is fetched the same value
UniformFetch(rubric) ==
    \A k, l \in 1..Len(AllMetrics(rubric)) :
        fetch_real_time_data(AllMetrics(rubric)[k], company_symbol)
          = fetch_real_time_data(AllMetrics(rubric)[l], company_symbol)

SameThresholds(rubric) ==
    \A k, l \in 1..Len(AllMetrics(rubric)) :
        scoring_thresholds[AllMetrics(rubric)[k]]
          = scoring_thresholds[AllMetrics(rubric)[l]]

\* every metric has the one score s and every category's normalized score
\* is (s * sum of the category's weights) / totalWeight
UniformScores(rubric) ==
    \E s \in 1..5 :
       /\ \A i \in 1..Len(rubric) :
             /\ Len(result.detailed_scores[i].scores) = Len(rubric[i].metrics)
             /\ \A k \in 1..Len(result.detailed_scores[i].scores) :
                   result.detailed_scores[i].scores[k].score = s
       /\ \A i \in 1..Len(rubric) :
             FEq(result.category_scores[i].score,
                 FDiv(FMulInt(s, SumNaive(WeightsOf(rubric[i]),
                                          Len(rubric[i].metrics))),
                      DeclaredTotal(rubric)))

\* C8 as stated: when every metric has data and is fetched the same
\* value, every metric has the same score s and each category's normalized
\* score is (s * sum of its weights) / totalWeight.
C8_UniformFetchGivesUniformScores ==
    (Returned /\ AllHaveData(EvaluatedRubric) /\ UniformFetch(EvaluatedRubric))
      => UniformScores(EvaluatedRubric)

\* C8 as amended: the same, for a rubric whose metrics also share one
\* threshold list.
C8_UniformFetchAndThresholdsGiveUniformScores ==
    (Returned /\ AllHaveData(EvaluatedRubric) /\ UniformFetch(EvaluatedRubric)
              /\ SameThresholds(EvaluatedRubric))
      => UniformScores(EvaluatedRubric)

\* A category of two distinct metrics with one value, one threshold list
\* and two different non-zero weights has been scored.
C8_Witness ==
    /\ Returned /\ CustomRubricGiven
    /\ AllHaveData(EvaluatedRubric) /\ UniformFetch(EvaluatedRubric)
    /\ SameThresholds(EvaluatedRubric)
    /\ \E i \in 1..Len(EvaluatedRubric) :
          /\ Len(EvaluatedRubric[i].metrics) = 2
          /\ ~IsZero(EvaluatedRubric[i].metrics[1].weight)
          /\ ~IsZero(EvaluatedRubric[i].metrics[2].weight)
          /\ ~FEq(EvaluatedRubric[i].metrics[1].weight,
                  EvaluatedRubric[i].metrics[2].weight)

\* C9: with the default rubric the result does not depend on the ticker:
\* a call returns what the call before returned, whatever the two symbols,
\* and what a call for any other symbol returns.
C9_DefaultResultIgnoresTicker ==
    (Returned /\ custom_weights.none)
      => /\ prev.result.kind = "return" => result = prev.result
         /\ \A other \in Tickers :
               result = score_ai_company(other, None, sum_impl)

\* Two calls with the default rubric, for two different symbols, have
\* returned.
C9_Witness ==
    /\ Returned /\ custom_weights.none
    /\ prev.result.kind = "return"
    /\ prev.symbol # company_symbol

\* the handler has answered
Handled == pc = "done" /\ "pending" \notin DOMAIN response

\* C10: the handler's answer to a request is either the success body with the
\* requested ticker and the three parts of the evaluation result, or, when
\* the evaluation raised, a body with the error message only.
C10_HandlerAnswersSuccessOrError ==
    Handled =>
         LET evaluation == score_ai_company(ticker, None, sum_impl)
         IN  IF evaluation.kind = "return"
             THEN /\ DOMAIN response = {"success", "ticker", "category_scores",
                                        "overall_score", "detailed_scores"}
                  /\ response.success = TRUE
                  /\ response.ticker = ticker
                  /\ response.category_scores = evaluation.category_scores
                  /\ response.overall_score = evaluation.overall_score
                  /\ response.detailed_scores = evaluation.detailed_scores
             ELSE /\ DOMAIN response = {"error"}
                  /\ response.error = evaluation.msg

\* A request for a ticker other than the module's example has been
\* answered with the success body.
C10_Witness ==
    /\ Handled
    /\ ticker = "NVDA"
    /\ "success" \in DOMAIN response
    /\ response.ticker = "NVDA"
    /\ Len(response.category_scores) = 7

====
